---- MODULE Spec2Model ----
(***************************************************************************)
(* Model of the Thai Cookery menu UI: the Menu page and its SearchBar      *)
(* (src/src/pages/Menu.tsx) and the MenuItem card                          *)
(* (src/src/components/MenuItem.tsx).                                      *)
(*                                                                         *)
(* JavaScript strings are sequences of one-character strings, so that      *)
(* toLowerCase, trim, includes and the title regular expression are        *)
(* computed and not assumed.  An optional value (undefined / null) is a    *)
(* sequence of length 0 or 1.                                              *)
(***************************************************************************)
EXTENDS Integers, Sequences, FiniteSets, TLC

\* ------------------------------------------------------------------ bounds
\* Longest generated query, in words (specification SpecClassify).
MaxWords == 2
\* Largest generated catalog, in items (specification SpecBuilder).
MaxItems == 6
\* Largest protein value of a generated catalog.
MaxProtein == 2
\* Clicks a card can take before React renders it again.
MaxPending == 3
\* Largest quantity the model lets the increment control reach.
MaxQuantity == 3
\* Calls to the cart collaborator the model records.
MaxCartCalls == 2
\* Largest generated catalog of the text search (specification SpecText).
MaxTextItems == 2
\* Largest generated catalog of the flag queries (specification SpecFlags).
MaxFlagItems == 3
\* Largest generated catalog of the quick-lunch query (specification SpecQuick).
MaxQuickItems == 3

\* --------------------------------------------------------- optional values
None == <<>>
Some(x) == <<x>>

\* ------------------------------------------------------------------ strings
UpperCaseLetters ==
  <<"A", "B", "C", "D", "E", "F", "G", "H", "I", "J", "K", "L", "M",
    "N", "O", "P", "Q", "R", "S", "T", "U", "V", "W", "X", "Y", "Z">>
LowerCaseLetters ==
  <<"a", "b", "c", "d", "e", "f", "g", "h", "i", "j", "k", "l", "m",
    "n", "o", "p", "q", "r", "s", "t", "u", "v", "w", "x", "y", "z">>

\* String.prototype.toLowerCase, character by character.
toLowerCase(s) ==
  [i \in 1..Len(s) |->
     IF \E k \in 1..26 : UpperCaseLetters[k] = s[i]
     THEN LowerCaseLetters[CHOOSE k \in 1..26 : UpperCaseLetters[k] = s[i]]
     ELSE s[i]]

WhiteSpace == {" ", "\t", "\n", "\r"}
LineTerminators == {"\n", "\r"}

\* trim left out: the text is tested as it was typed.
trim_leftOut(s) == s

\* String.prototype.trim: drops the leading and the trailing white space.
trim(s) ==
  IF \A i \in 1..Len(s) : s[i] \in WhiteSpace
  THEN <<>>
  ELSE LET first == CHOOSE i \in 1..Len(s) :
                      /\ s[i] \notin WhiteSpace
                      /\ \A j \in 1..(i - 1) : s[j] \in WhiteSpace
           last  == CHOOSE i \in 1..Len(s) :
                      /\ s[i] \notin WhiteSpace
                      /\ \A j \in (i + 1)..Len(s) : s[j] \in WhiteSpace
       IN SubSeq(s, first, last)

\* String.prototype.includes: t occurs in s as a contiguous substring.
includes(s, t) ==
  \E i \in 0..(Len(s) - Len(t)) : SubSeq(s, i + 1, i + Len(t)) = t

\* ---------------------------------------------------------------- literals
STR_popular == <<"p", "o", "p", "u", "l", "a", "r">>
STR_best_seller == <<"b", "e", "s", "t", " ", "s", "e", "l", "l", "e", "r">>
STR_spicy == <<"s", "p", "i", "c", "y">>
STR_spiciest == <<"s", "p", "i", "c", "i", "e", "s", "t">>
STR_vegetarian == <<"v", "e", "g", "e", "t", "a", "r", "i", "a", "n">>
STR_vegan == <<"v", "e", "g", "a", "n">>
STR_gluten == <<"g", "l", "u", "t", "e", "n">>
STR_protein == <<"p", "r", "o", "t", "e", "i", "n">>
STR_highest_protein ==
  <<"h", "i", "g", "h", "e", "s", "t", " ", "p", "r", "o", "t", "e", "i", "n">>
STR_quick == <<"q", "u", "i", "c", "k">>
STR_fast == <<"f", "a", "s", "t">>
STR_lunch == <<"l", "u", "n", "c", "h">>
STR_spanish == <<"s", "p", "a", "n", "i", "s", "h">>
STR_fried_rice == <<"f", "r", "i", "e", "d", " ", "r", "i", "c", "e">>

TITLE_popular ==
  <<"M", "o", "s", "t", " ", "P", "o", "p", "u", "l", "a", "r", " ",
    "D", "i", "s", "h", "e", "s">>
TITLE_spicy == <<"S", "p", "i", "c", "y", " ", "D", "i", "s", "h", "e", "s">>
TITLE_vegetarian ==
  <<"V", "e", "g", "e", "t", "a", "r", "i", "a", "n", " ",
    "O", "p", "t", "i", "o", "n", "s">>
TITLE_gluten_free ==
  <<"G", "l", "u", "t", "e", "n", "-", "F", "r", "e", "e", " ",
    "O", "p", "t", "i", "o", "n", "s">>
TITLE_protein ==
  <<"H", "i", "g", "h", "e", "s", "t", " ", "P", "r", "o", "t", "e", "i", "n", " ",
    "D", "i", "s", "h", "e", "s">>
TITLE_quick ==
  <<"Q", "u", "i", "c", "k", " ", "L", "u", "n", "c", "h", " ",
    "O", "p", "t", "i", "o", "n", "s">>
TITLE_spanish == <<"S", "p", "a", "n", "i", "s", "h", " ", "M", "e", "n", "u">>
\* The text before the query in the title of a text search, `Search Results for "`.
TITLE_search_prefix ==
  <<"S", "e", "a", "r", "c", "h", " ", "R", "e", "s", "u", "l", "t", "s", " ",
    "f", "o", "r", " ", "\"">>
DoubleQuote == "\""

\* The suggested searches of the search bar, in their order.
faqs ==
  << <<"W", "h", "a", "t", " ", "i", "s", " ", "t", "h", "e", " ", "m", "o", "s", "t", " ",
       "p", "o", "p", "u", "l", "a", "r", " ", "d", "i", "s", "h", "?">>,
     <<"S", "h", "o", "w", " ", "m", "e", " ", "s", "p", "i", "c", "y", " ",
       "d", "i", "s", "h", "e", "s">>,
     <<"I", " ", "a", "m", " ", "v", "e", "g", "e", "t", "a", "r", "i", "a", "n">>,
     <<"W", "h", "i", "c", "h", " ", "d", "i", "s", "h", " ", "h", "a", "s", " ",
       "t", "h", "e", " ", "h", "i", "g", "h", "e", "s", "t", " ",
       "p", "r", "o", "t", "e", "i", "n", "?">>,
     <<"S", "h", "o", "w", " ", "g", "l", "u", "t", "e", "n", "-", "f", "r", "e", "e", " ",
       "o", "p", "t", "i", "o", "n", "s">>,
     <<"Q", "u", "i", "c", "k", " ", "l", "u", "n", "c", "h", " ",
       "o", "p", "t", "i", "o", "n", "s">> >>

\* ------------------------------------------------------------------ catalog
\* An item of '@/data/menuData': protein and options are optional.
Item(id, name, description, popular, spicy, vegetarian, glutenFree, protein, options) ==
  [id |-> id, name |-> name, description |-> description, price |-> 12,
   popular |-> popular, spicy |-> spicy, vegetarian |-> vegetarian,
   glutenFree |-> glutenFree, protein |-> protein, options |-> options]

SpringRolls ==
  Item("thai-spring-rolls",
       <<"S", "p", "r", "i", "n", "g", " ", "R", "o", "l", "l", "s">>,
       <<"C", "r", "i", "s", "p", "y", " ", "r", "o", "l", "l", "s">>,
       TRUE, FALSE, TRUE, FALSE, None, None)
TomYum ==
  Item("tom-yum",
       <<"T", "o", "m", " ", "Y", "u", "m">>,
       <<"S", "p", "i", "c", "y", " ", "s", "o", "u", "p">>,
       FALSE, TRUE, FALSE, TRUE, Some(2), Some(<<[required |-> FALSE]>>))
PadThai ==
  Item("pad-thai",
       <<"P", "a", "d", " ", "T", "h", "a", "i">>,
       <<"N", "o", "o", "d", "l", "e", "s">>,
       TRUE, FALSE, FALSE, FALSE, Some(3),
       Some(<<[required |-> FALSE], [required |-> TRUE]>>))
FriedRice ==
  Item("fried-rice",
       <<"F", "r", "i", "e", "d", " ", "R", "i", "c", "e">>,
       <<"R", "i", "c", "e">>,
       FALSE, FALSE, TRUE, TRUE, Some(1), Some(<<>>))

\* The static catalog the search bar imports, as the page's sample data.
SampleCatalog ==
  << [id |-> "starters", items |-> <<SpringRolls>>],
     [id |-> "soups",    items |-> <<TomYum>>],
     [id |-> "noodles",  items |-> <<PadThai>>],
     [id |-> "rice",     items |-> <<FriedRice>>] >>

\* The categories the database hook delivers once it has loaded.
LoadedCategories == << [slug |-> "starters"], [slug |-> "noodles"] >>

\* menuCategories.flatMap(category => category.items)
RECURSIVE flatMapItems(_)
flatMapItems(cats) ==
  IF cats = <<>> THEN <<>> ELSE Head(cats).items \o flatMapItems(Tail(cats))

\* ------------------------------------------------------- intent classifier
\* The chain with the vegetarian test moved before the spicy test.
Classify_vegetarianBeforeSpicy(searchLower) ==
  IF includes(searchLower, STR_popular) \/ includes(searchLower, STR_best_seller)
    THEN "POPULAR"
  ELSE IF includes(searchLower, STR_vegetarian) \/ includes(searchLower, STR_vegan)
    THEN "VEGETARIAN"
  ELSE IF includes(searchLower, STR_spicy) \/ includes(searchLower, STR_spiciest)
    THEN "SPICY"
  ELSE IF includes(searchLower, STR_gluten)
    THEN "GLUTEN_FREE"
  ELSE IF includes(searchLower, STR_protein) \/ includes(searchLower, STR_highest_protein)
    THEN "HIGHEST_PROTEIN"
  ELSE IF \/ includes(searchLower, STR_quick)
          \/ includes(searchLower, STR_fast)
          \/ includes(searchLower, STR_lunch)
    THEN "QUICK_LUNCH"
  ELSE IF includes(searchLower, STR_spanish) \/ searchLower = STR_spanish
    THEN "LANGUAGE_SWITCH"
  ELSE "GENERIC_TEXT_SEARCH"

\* The chain with the language test reduced to the exact comparison.
Classify_exactSpanish(searchLower) ==
  IF includes(searchLower, STR_popular) \/ includes(searchLower, STR_best_seller)
    THEN "POPULAR"
  ELSE IF includes(searchLower, STR_spicy) \/ includes(searchLower, STR_spiciest)
    THEN "SPICY"
  ELSE IF includes(searchLower, STR_vegetarian) \/ includes(searchLower, STR_vegan)
    THEN "VEGETARIAN"
  ELSE IF includes(searchLower, STR_gluten)
    THEN "GLUTEN_FREE"
  ELSE IF includes(searchLower, STR_protein) \/ includes(searchLower, STR_highest_protein)
    THEN "HIGHEST_PROTEIN"
  ELSE IF \/ includes(searchLower, STR_quick)
          \/ includes(searchLower, STR_fast)
          \/ includes(searchLower, STR_lunch)
    THEN "QUICK_LUNCH"
  ELSE IF searchLower = STR_spanish
    THEN "LANGUAGE_SWITCH"
  ELSE "GENERIC_TEXT_SEARCH"

\* The if / else-if chain of handleSearch over the lower-cased query; the
\* tag names the branch taken.
Classify(searchLower) ==
  IF includes(searchLower, STR_popular) \/ includes(searchLower, STR_best_seller)
    THEN "POPULAR"
  ELSE IF includes(searchLower, STR_spicy) \/ includes(searchLower, STR_spiciest)
    THEN "SPICY"
  ELSE IF includes(searchLower, STR_vegetarian) \/ includes(searchLower, STR_vegan)
    THEN "VEGETARIAN"
  ELSE IF includes(searchLower, STR_gluten)
    THEN "GLUTEN_FREE"
  ELSE IF includes(searchLower, STR_protein) \/ includes(searchLower, STR_highest_protein)
    THEN "HIGHEST_PROTEIN"
  ELSE IF \/ includes(searchLower, STR_quick)
          \/ includes(searchLower, STR_fast)
          \/ includes(searchLower, STR_lunch)
    THEN "QUICK_LUNCH"
  ELSE IF includes(searchLower, STR_spanish) \/ searchLower = STR_spanish
    THEN "LANGUAGE_SWITCH"
  ELSE "GENERIC_TEXT_SEARCH"

\* ---------------------------------------------------------- result builder
\* (b.protein || 0): the sort key of an item.
proteinOrZero(item) ==
  IF item.protein = None THEN 0
  ELSE IF item.protein[1] = 0 THEN 0 ELSE item.protein[1]

\* Array.prototype.sort with the comparator (a, b) => key(b) - key(a): a stable
\* sort (ECMAScript 2019), here by insertion behind the last element that
\* does not compare greater.
RECURSIVE sortByProteinDesc(_)
\* The insertion of an unstable sort: before the elements that compare equal.
insertByProteinDesc_beforeEquals(sorted, item) ==
  LET n == Cardinality({i \in 1..Len(sorted) :
                          proteinOrZero(item) - proteinOrZero(sorted[i]) < 0})
  IN SubSeq(sorted, 1, n) \o <<item>> \o SubSeq(sorted, n + 1, Len(sorted))

insertByProteinDesc(sorted, item) ==
  LET n == Cardinality({i \in 1..Len(sorted) :
                          proteinOrZero(item) - proteinOrZero(sorted[i]) <= 0})
  IN SubSeq(sorted, 1, n) \o <<item>> \o SubSeq(sorted, n + 1, Len(sorted))
sortByProteinDesc(seq) ==
  IF seq = <<>> THEN <<>>
  ELSE insertByProteinDesc(sortByProteinDesc(SubSeq(seq, 1, Len(seq) - 1)), seq[Len(seq)])

\* Array.prototype.slice(0, n)
slice0(seq, n) == SubSeq(seq, 1, IF Len(seq) < n THEN Len(seq) ELSE n)

\* The protein query without its sort.
handleProteinQuery_unsorted(cats) ==
  [title |-> TITLE_protein,
   items |-> slice0(SelectSeq(flatMapItems(cats), LAMBDA item : item.protein # None), 5)]

handleProteinQuery(cats) ==
  [title |-> TITLE_protein,
   items |-> slice0(sortByProteinDesc(
                      SelectSeq(flatMapItems(cats), LAMBDA item : item.protein # None)), 5)]

handleSpicyQuery(cats) ==
  [title |-> TITLE_spicy,
   items |-> SelectSeq(flatMapItems(cats), LAMBDA item : item.spicy)]

\* The vegetarian query filtering on the gluten-free flag.
handleVegetarianQuery_wrongFlag(cats) ==
  [title |-> TITLE_vegetarian,
   items |-> SelectSeq(flatMapItems(cats), LAMBDA item : item.glutenFree)]

handleVegetarianQuery(cats) ==
  [title |-> TITLE_vegetarian,
   items |-> SelectSeq(flatMapItems(cats), LAMBDA item : item.vegetarian)]

handleGlutenFreeQuery(cats) ==
  [title |-> TITLE_gluten_free,
   items |-> SelectSeq(flatMapItems(cats), LAMBDA item : item.glutenFree)]

handlePopularQuery(cats) ==
  [title |-> TITLE_popular,
   items |-> SelectSeq(flatMapItems(cats), LAMBDA item : item.popular)]

\* menuCategories.find(cat => cat.items.some(i => i.id === item.id))?.id
owningCategoryId(cats, item) ==
  LET owners == {k \in 1..Len(cats) :
                   \E j \in 1..Len(cats[k].items) : cats[k].items[j].id = item.id}
  IN IF owners = {} THEN None
     ELSE Some(cats[CHOOSE k \in owners : \A m \in owners : k <= m].id)

\* The quick-lunch query without the soups category.
handleQuickOptions_noSoups(cats) ==
  [title |-> TITLE_quick,
   items |-> SelectSeq(flatMapItems(cats),
               LAMBDA item :
                 \/ owningCategoryId(cats, item) = Some("starters")
                 \/ includes(toLowerCase(item.name), STR_fried_rice))]

handleQuickOptions(cats) ==
  [title |-> TITLE_quick,
   items |-> SelectSeq(flatMapItems(cats),
               LAMBDA item :
                 \/ owningCategoryId(cats, item) = Some("starters")
                 \/ owningCategoryId(cats, item) = Some("soups")
                 \/ includes(toLowerCase(item.name), STR_fried_rice))]

\* The object handleSpanishQuery returns; the translation table it builds
\* (spanishResponse) is a local that the returned object does not carry.
handleSpanishQuery == [title |-> TITLE_spanish, items |-> <<>>]

\* The text search without the test of the description.
textSearch_nameOnly(cats, searchText) ==
  [title |-> TITLE_search_prefix \o searchText \o <<DoubleQuote>>,
   items |-> SelectSeq(flatMapItems(cats),
               LAMBDA item : includes(toLowerCase(item.name), searchText))]

textSearch(cats, searchText) ==
  [title |-> TITLE_search_prefix \o searchText \o <<DoubleQuote>>,
   items |-> SelectSeq(flatMapItems(cats),
               LAMBDA item :
                 \/ includes(toLowerCase(item.name), searchText)
                 \/ includes(toLowerCase(item.description), searchText))]

\* ------------------------------------------------------------------- state
VARIABLES
  menuCategories,     \* the static catalog of '@/data/menuData'
  categories,         \* Menu: the categories of useMenuCategories
  categoriesLoading,  \* Menu: useMenuCategories is still loading
  categoriesError,    \* Menu: useMenuCategories failed
  isLoaded,           \* Menu: the 100 ms timer has fired
  activeCategory,     \* Menu: slug of the active category, "" when unset
  searchResults,      \* Menu: None (null) or Some(result)
  currentQuery,       \* Menu: the query taken from the result title
  query,              \* SearchBar: the text of its own input
  isExpanded,         \* SearchBar: the suggestions are open
  item,               \* MenuItem: the item prop of the card
  quantity,           \* MenuItem: the quantity state as of the last render
  expanded,           \* MenuItem: the expanded state as of the last render
  pending,            \* MenuItem: state updates queued since the last render
  cart,               \* the calls made to the cart collaborator's addToCart
  href,               \* window.location.href, None while on the menu page
  last                \* the handler that ran last, its input and what it emitted

pageVars == <<categories, categoriesLoading, categoriesError, isLoaded,
              activeCategory, searchResults, currentQuery, query, isExpanded>>
cardVars == <<item, quantity, expanded, pending, cart, href>>
vars == <<menuCategories, pageVars, cardVars, last>>

\* What a step records about the handler it ran.
Ran(op, text, intent, emitted) ==
  [op |-> op, text |-> text, intent |-> intent, emitted |-> emitted]

\* -------------------------------------------------------------- Menu page
\* results.title.match(/Search Results for "(.+?)"|(.+)/): the leftmost
\* match, the first alternative before the second; None when nothing matches.
\* Group 1 is the shortest non-empty run without line terminators that a
\* double quote follows, group 2 the longest run without line terminators.
group1At(title, p) ==
  LET from == p + Len(TITLE_search_prefix)
      ends == {e \in from..(Len(title) - 1) :
                 /\ \A j \in from..e : title[j] \notin LineTerminators
                 /\ title[e + 1] = DoubleQuote}
  IN IF /\ from - 1 <= Len(title)
        /\ SubSeq(title, p, from - 1) = TITLE_search_prefix
        /\ ends # {}
     THEN Some(SubSeq(title, from, CHOOSE e \in ends : \A f \in ends : e <= f))
     ELSE None

group2At(title, p) ==
  LET ends == {e \in p..Len(title) : \A j \in p..e : title[j] \notin LineTerminators}
  IN IF ends # {}
     THEN Some(SubSeq(title, p, CHOOSE e \in ends : \A f \in ends : e >= f))
     ELSE None

\* queryMatch[1] || queryMatch[2] || "" of the leftmost match, None without one.
extractQuery(title) ==
  LET starts == {p \in 1..Len(title) :
                   group1At(title, p) # None \/ group2At(title, p) # None}
  IN IF starts = {} THEN None
     ELSE LET p == CHOOSE q \in starts : \A r \in starts : q <= r
          IN IF group1At(title, p) # None THEN group1At(title, p)
             ELSE group2At(title, p)

\* useMenuSearch(currentQuery).items: the catalog collaborator's full-text
\* search for a text.
useMenuSearch(cats, text) ==
  IF text = <<>> THEN <<>>
  ELSE SelectSeq(flatMapItems(cats),
         LAMBDA it :
           \/ includes(toLowerCase(it.name), toLowerCase(text))
           \/ includes(toLowerCase(it.description), toLowerCase(text)))

\* The page without the effect that sets the initial category.
initialCategoryEffect_absent(cats, active) == active

\* The effect that sets the initial active category, run after each render
\* that changed categories or activeCategory.
initialCategoryEffect(cats, active) ==
  IF Len(cats) > 0 /\ active = "" THEN cats[1].slug ELSE active

\* The page renders its main view: neither the spinner nor the error screen.
PageShown == ~(categoriesLoading /\ ~isLoaded) /\ ~categoriesError
isSearchActive == searchResults # None

\* categories.find(cat => cat.slug === activeCategory), None when not found.
selectedCategory ==
  LET found == {k \in 1..Len(categories) : categories[k].slug = activeCategory}
  IN IF found = {} THEN None
     ELSE Some(categories[CHOOSE k \in found : \A m \in found : k <= m])

\* The header and the item list of the active category are rendered.
categoryViewShown == PageShown /\ searchResults = None /\ selectedCategory # None

\* The texts the user types into the search bar.
TypedQueries ==
  { <<>>,
    <<" ", " ">>,
    <<"S", "p", "i", "c", "y">>,
    <<"P", "a", "d">>,
    <<"s", "p", "a", "n", "i", "s", "h">>,
    <<"S", "p", "a", "n", "i", "s", "h", " ", "m", "e", "n", "u">> }

\* What useMenuCategories can deliver.
CategoryLoads == { <<>>, LoadedCategories }

TimerFires ==
  /\ ~isLoaded
  /\ isLoaded' = TRUE
  /\ last' = Ran("setIsLoaded", None, "NONE", None)
  /\ UNCHANGED <<menuCategories, categories, categoriesLoading, categoriesError,
                 activeCategory, searchResults, currentQuery, query, isExpanded,
                 cardVars>>

CategoriesLoaded ==
  /\ categoriesLoading
  /\ \E cats \in CategoryLoads :
       /\ categories' = cats
       /\ activeCategory' = initialCategoryEffect(cats, activeCategory)
  /\ categoriesLoading' = FALSE
  /\ last' = Ran("useMenuCategories", None, "NONE", None)
  /\ UNCHANGED <<menuCategories, categoriesError, isLoaded, searchResults,
                 currentQuery, query, isExpanded, cardVars>>

CategoriesFailed ==
  /\ categoriesLoading
  /\ categoriesLoading' = FALSE
  /\ categoriesError' = TRUE
  /\ last' = Ran("useMenuCategories", None, "NONE", None)
  /\ UNCHANGED <<menuCategories, categories, isLoaded, activeCategory, searchResults,
                 currentQuery, query, isExpanded, cardVars>>

handleCategoryChange ==
  /\ PageShown
  /\ searchResults = None
  /\ \E k \in 1..Len(categories) :
       activeCategory' = initialCategoryEffect(categories, categories[k].slug)
  /\ last' = Ran("handleCategoryChange", None, "NONE", None)
  /\ UNCHANGED <<menuCategories, categories, categoriesLoading, categoriesError,
                 isLoaded, searchResults, currentQuery, query, isExpanded, cardVars>>

\* handleSearchResults(results), as the new values of currentQuery and
\* searchResults.
handleSearchResults(results) ==
  /\ currentQuery' = (IF extractQuery(results.title) # None
                      THEN extractQuery(results.title)[1]
                      ELSE currentQuery)
  /\ searchResults' = Some(results)

\* The clear without the reset of currentQuery.
clearSearchResults_keepsQuery ==
  /\ searchResults' = None
  /\ UNCHANGED currentQuery

clearSearchResults ==
  /\ searchResults' = None
  /\ currentQuery' = <<>>

BackToMenu ==
  /\ PageShown
  /\ searchResults # None
  /\ clearSearchResults
  /\ last' = Ran("clearSearchResults", None, "NONE", None)
  /\ UNCHANGED <<menuCategories, categories, categoriesLoading, categoriesError,
                 isLoaded, activeCategory, query, isExpanded, cardVars>>

\* ------------------------------------------------------------- SearchBar
onChange ==
  /\ PageShown
  /\ \E text \in TypedQueries : query' = text
  /\ last' = Ran("setQuery", None, "NONE", None)
  /\ UNCHANGED <<menuCategories, categories, categoriesLoading, categoriesError,
                 isLoaded, activeCategory, searchResults, currentQuery, isExpanded,
                 cardVars>>

onFocus ==
  /\ PageShown
  /\ isExpanded' = TRUE
  /\ last' = Ran("setIsExpanded", None, "NONE", None)
  /\ UNCHANGED <<menuCategories, categories, categoriesLoading, categoriesError,
                 isLoaded, activeCategory, searchResults, currentQuery, query,
                 cardVars>>

handleClickOutside ==
  /\ PageShown
  /\ isExpanded' = FALSE
  /\ last' = Ran("handleClickOutside", None, "NONE", None)
  /\ UNCHANGED <<menuCategories, categories, categoriesLoading, categoriesError,
                 isLoaded, activeCategory, searchResults, currentQuery, query,
                 cardVars>>

\* The results object the branch of an intent assigns; LANGUAGE_SWITCH
\* assigns none.
resultsOf(intent, searchLower) ==
  CASE intent = "POPULAR"         -> handlePopularQuery(menuCategories)
    [] intent = "SPICY"           -> handleSpicyQuery(menuCategories)
    [] intent = "VEGETARIAN"      -> handleVegetarianQuery(menuCategories)
    [] intent = "GLUTEN_FREE"     -> handleGlutenFreeQuery(menuCategories)
    [] intent = "HIGHEST_PROTEIN" -> handleProteinQuery(menuCategories)
    [] intent = "QUICK_LUNCH"     -> handleQuickOptions(menuCategories)
    [] OTHER                      -> textSearch(menuCategories, searchLower)

\* handleSearch(searchText), entered with the search bar's text being
\* queryBefore.
handleSearch(searchText, queryBefore) ==
  IF trim(searchText) = <<>>
  THEN \* return
       /\ query' = queryBefore
       /\ last' = Ran("handleSearch", Some(searchText), "NONE", None)
       /\ UNCHANGED <<searchResults, currentQuery, isExpanded>>
  ELSE LET searchLower == toLowerCase(searchText)
           intent == Classify(searchLower)
       IN IF intent = "LANGUAGE_SWITCH"
          THEN \* handleSpanishQuery(); return
               /\ query' = queryBefore
               /\ last' = Ran("handleSearch", Some(searchText), intent, None)
               /\ UNCHANGED <<searchResults, currentQuery, isExpanded>>
          ELSE /\ handleSearchResults(resultsOf(intent, searchLower))
               /\ query' = <<>>
               /\ isExpanded' = FALSE
               /\ last' = Ran("handleSearch", Some(searchText), intent,
                              Some(resultsOf(intent, searchLower)))

PressEnter ==
  /\ PageShown
  /\ handleSearch(query, query)
  /\ UNCHANGED <<menuCategories, categories, categoriesLoading, categoriesError,
                 isLoaded, activeCategory, cardVars>>

handleFaqClick ==
  /\ PageShown
  /\ isExpanded
  /\ \E k \in 1..Len(faqs) : handleSearch(faqs[k], faqs[k])
  /\ UNCHANGED <<menuCategories, categories, categoriesLoading, categoriesError,
                 isLoaded, activeCategory, cardVars>>

clearSearch ==
  /\ PageShown
  /\ query # <<>> \/ isSearchActive
  /\ query' = <<>>
  /\ clearSearchResults
  /\ last' = Ran("clearSearch", None, "NONE", None)
  /\ UNCHANGED <<menuCategories, categories, categoriesLoading, categoriesError,
                 isLoaded, activeCategory, isExpanded, cardVars>>

\* ------------------------------------------------------------ MenuItem card
\* A handler of the card reads quantity and expanded as they were when the
\* card was last rendered, and its setQuantity / setExpanded calls queue
\* updates that React applies, in order, when it renders the card again.
CardInit ==
  /\ quantity = 1
  /\ expanded = FALSE
  /\ pending = <<>>
  /\ cart = <<>>
  /\ href = None

\* item.options?.some(option => option.required)
hasRequiredOption(it) ==
  /\ it.options # None
  /\ \E k \in 1..Len(it.options[1]) : it.options[1][k].required

\* One queued update applied to the state [quantity, expanded].
applyUpdate(state, update) ==
  CASE update = "prev + 1" -> [state EXCEPT !.quantity = @ + 1]
    [] update = "prev - 1" -> [state EXCEPT !.quantity = @ - 1]
    [] update = "1"        -> [state EXCEPT !.quantity = 1]
    [] update = "true"     -> [state EXCEPT !.expanded = TRUE]
    [] update = "false"    -> [state EXCEPT !.expanded = FALSE]

RECURSIVE applyUpdates(_, _)
applyUpdates(state, updates) ==
  IF updates = <<>> THEN state
  ELSE applyUpdates(applyUpdate(state, Head(updates)), Tail(updates))

\* The state the next render of the card shows.
nextState == applyUpdates([quantity |-> quantity, expanded |-> expanded], pending)

\* Add-to-cart without the redirect for required options.
handleAddToCart_noRedirect ==
  /\ expanded
  /\ Len(cart) < MaxCartCalls
  /\ Len(pending) < MaxPending
  /\ cart' = Append(cart, [id |-> item.id, name |-> item.name,
                           price |-> item.price, quantity |-> quantity])
  /\ pending' = Append(pending, "1")
  /\ last' = Ran("handleAddToCart", None, "NONE", None)
  /\ UNCHANGED <<menuCategories, pageVars, item, quantity, expanded, href>>

\* Add-to-cart without the reset of the quantity.
handleAddToCart_noReset ==
  /\ expanded
  /\ IF hasRequiredOption(item)
     THEN /\ href' = Some(<<"/item/", item.id>>)
          /\ UNCHANGED <<cart, pending>>
     ELSE /\ Len(cart) < MaxCartCalls
          /\ cart' = Append(cart, [id |-> item.id, name |-> item.name,
                                   price |-> item.price, quantity |-> quantity])
          /\ UNCHANGED <<href, pending>>
  /\ last' = Ran("handleAddToCart", None, "NONE", None)
  /\ UNCHANGED <<menuCategories, pageVars, item, quantity, expanded>>

handleAddToCart ==
  /\ expanded
  /\ IF hasRequiredOption(item)
     THEN /\ href' = Some(<<"/item/", item.id>>)
          /\ UNCHANGED <<cart, pending>>
     ELSE /\ Len(cart) < MaxCartCalls
          /\ Len(pending) < MaxPending
          /\ cart' = Append(cart, [id |-> item.id, name |-> item.name,
                                   price |-> item.price, quantity |-> quantity])
          /\ pending' = Append(pending, "1")
          /\ UNCHANGED href
  /\ last' = Ran("handleAddToCart", None, "NONE", None)
  /\ UNCHANGED <<menuCategories, pageVars, item, quantity, expanded>>

incrementQuantity ==
  /\ Len(pending) < MaxPending
  /\ nextState.quantity < MaxQuantity
  /\ pending' = Append(pending, "prev + 1")
  /\ last' = Ran("incrementQuantity", None, "NONE", None)
  /\ UNCHANGED <<menuCategories, pageVars, item, quantity, expanded, cart, href>>

decrementQuantity ==
  /\ Len(pending) < MaxPending
  /\ pending' = IF quantity > 1 THEN Append(pending, "prev - 1") ELSE pending
  /\ last' = Ran("decrementQuantity", None, "NONE", None)
  /\ UNCHANGED <<menuCategories, pageVars, item, quantity, expanded, cart, href>>

toggleDetails ==
  /\ Len(pending) < MaxPending
  /\ pending' = Append(pending, IF expanded THEN "false" ELSE "true")
  /\ last' = Ran("toggleDetails", None, "NONE", None)
  /\ UNCHANGED <<menuCategories, pageVars, item, quantity, expanded, cart, href>>

\* React renders the card again: the queued updates become the state.
Render ==
  /\ pending # <<>>
  /\ quantity' = nextState.quantity
  /\ expanded' = nextState.expanded
  /\ pending' = <<>>
  /\ last' = Ran("render", None, "NONE", None)
  /\ UNCHANGED <<menuCategories, pageVars, item, cart, href>>

PageInit ==
  /\ categories = <<>>
  /\ categoriesLoading = TRUE
  /\ categoriesError = FALSE
  /\ isLoaded = FALSE
  /\ activeCategory = ""
  /\ searchResults = None
  /\ currentQuery = <<>>
  /\ query = <<>>
  /\ isExpanded = FALSE

\* The "Try Again" button of the error screen: window.location.reload().
Reload ==
  /\ categoriesError
  /\ categories' = <<>>
  /\ categoriesLoading' = TRUE
  /\ categoriesError' = FALSE
  /\ isLoaded' = FALSE
  /\ activeCategory' = ""
  /\ searchResults' = None
  /\ currentQuery' = <<>>
  /\ query' = <<>>
  /\ isExpanded' = FALSE
  /\ last' = Ran("reload", None, "NONE", None)
  /\ UNCHANGED <<menuCategories, cardVars>>

\* ----------------------------------------------------------- specification
\* The Menu page with its search bar, over the sample catalog.
Init ==
  /\ menuCategories = SampleCatalog
  /\ PageInit
  /\ item = SpringRolls
  /\ CardInit
  /\ last = Ran("mount", None, "NONE", None)

Next ==
  \/ TimerFires
  \/ CategoriesLoaded
  \/ CategoriesFailed
  \/ Reload
  \/ handleCategoryChange
  \/ onChange
  \/ onFocus
  \/ handleClickOutside
  \/ PressEnter
  \/ handleFaqClick
  \/ clearSearch
  \/ BackToMenu

Spec == Init /\ [][Next]_vars

\* One card, for each shape of item.options.
CardItems == {SpringRolls, TomYum, PadThai, FriedRice}

InitCard ==
  /\ menuCategories = SampleCatalog
  /\ PageInit
  /\ item \in CardItems
  /\ CardInit
  /\ last = Ran("mount", None, "NONE", None)

NextCard ==
  \/ handleAddToCart
  \/ incrementQuantity
  \/ decrementQuantity
  \/ toggleDetails
  \/ Render

SpecCard == InitCard /\ [][NextCard]_vars

\* The classifier over generated queries: up to MaxWords words of Words,
\* joined by single spaces, typed into the search bar of the loaded page.
Words ==
  << STR_popular, STR_best_seller, STR_spicy, STR_spiciest, STR_vegetarian,
     STR_vegan, STR_gluten, STR_protein, STR_quick, STR_fast, STR_lunch,
     STR_spanish,
     <<"S", "p", "i", "c", "y">>,
     <<"p", "a", "d">>,
     <<"m", "e", "n", "u">> >>

RECURSIVE joinWords(_)
joinWords(ws) ==
  IF ws = <<>> THEN <<>>
  ELSE IF Len(ws) = 1 THEN Words[ws[1]]
  ELSE Words[ws[1]] \o <<" ">> \o joinWords(Tail(ws))

WordQueries ==
  {joinWords(ws) : ws \in UNION {[1..n -> 1..Len(Words)] : n \in 0..MaxWords}}

InitClassify ==
  /\ menuCategories = SampleCatalog
  /\ categories = LoadedCategories
  /\ categoriesLoading = FALSE
  /\ categoriesError = FALSE
  /\ isLoaded = TRUE
  /\ activeCategory = "starters"
  /\ searchResults = None
  /\ currentQuery = <<>>
  /\ query \in WordQueries
  /\ isExpanded = TRUE
  /\ item = SpringRolls
  /\ CardInit
  /\ last = Ran("setQuery", None, "NONE", None)

NextClassify == PressEnter

SpecClassify == InitClassify /\ [][NextClassify]_vars

\* The result builder over generated catalogs: up to MaxItems items, each
\* with an undefined protein or one of 0..MaxProtein, in two categories.
ProteinOptions == {None} \cup {Some(v) : v \in 0..MaxProtein}

generatedItem(k, protein) ==
  Item(k, <<"D", "i", "s", "h">>, <<>>, FALSE, FALSE, FALSE, FALSE, protein, None)

generatedCatalog(proteins) ==
  LET n == Len(proteins)
      half == (n + 1) \div 2
  IN << [id |-> "starters",
         items |-> [k \in 1..half |-> generatedItem(k, proteins[k])]],
        [id |-> "noodles",
         items |-> [k \in 1..(n - half) |-> generatedItem(half + k, proteins[half + k])]] >>

GeneratedCatalogs ==
  {generatedCatalog(ps) : ps \in UNION {[1..n -> ProteinOptions] : n \in 0..MaxItems}}

\* The queries that reach each result builder.
BuilderQueries == {STR_protein}

InitBuilder ==
  /\ menuCategories \in GeneratedCatalogs
  /\ categories = <<>>
  /\ categoriesLoading = FALSE
  /\ categoriesError = FALSE
  /\ isLoaded = TRUE
  /\ activeCategory = ""
  /\ searchResults = None
  /\ currentQuery = <<>>
  /\ query \in BuilderQueries
  /\ isExpanded = TRUE
  /\ item = SpringRolls
  /\ CardInit
  /\ last = Ran("setQuery", None, "NONE", None)

NextBuilder == PressEnter

SpecBuilder == InitBuilder /\ [][NextBuilder]_vars

\* Items in two categories, the first half of them in the first.
catalogOf(items) ==
  LET n == Len(items)
      half == (n + 1) \div 2
  IN << [id |-> "starters", items |-> SubSeq(items, 1, half)],
        [id |-> "noodles",  items |-> SubSeq(items, half + 1, n)] >>

\* The text search over generated catalogs: up to MaxTextItems items, each
\* with a name of TextNames and a description of TextDescriptions.
TextNames ==
  { <<"P", "a", "d", " ", "T", "h", "a", "i">>,
    <<"T", "o", "m", " ", "Y", "u", "m">> }
TextDescriptions ==
  { <<>>,
    <<"T", "h", "a", "i", " ", "s", "o", "u", "p">>,
    <<"S", "o", "u", "r", " ", "p", "a", "d">> }
TextTexts == TextNames \X TextDescriptions

textItem(k, texts) ==
  Item(k, texts[1], texts[2], FALSE, FALSE, FALSE, FALSE, None, None)

TextCatalogs ==
  {catalogOf([k \in 1..n |-> textItem(k, ts[k])]) :
     n \in 0..MaxTextItems, ts \in [1..MaxTextItems -> TextTexts]}

\* Queries without a trigger word, in several letter cases, with white
\* space around and with a double quote inside.
TextQueries ==
  { <<"p", "a", "d">>,
    <<"P", "a", "d">>,
    <<"P", "A", "D">>,
    <<"t", "h", "a", "i">>,
    <<" ", "p", "a", "d">>,
    <<"z", "z">>,
    <<"a", "\"", "b">> }

InitText ==
  /\ menuCategories \in TextCatalogs
  /\ categories = <<>>
  /\ categoriesLoading = FALSE
  /\ categoriesError = FALSE
  /\ isLoaded = TRUE
  /\ activeCategory = ""
  /\ searchResults = None
  /\ currentQuery = <<>>
  /\ query \in TextQueries
  /\ isExpanded = TRUE
  /\ item = SpringRolls
  /\ CardInit
  /\ last = Ran("setQuery", None, "NONE", None)

NextText == PressEnter

SpecText == InitText /\ [][NextText]_vars

\* The flag queries over generated catalogs: up to MaxFlagItems items, each
\* with any combination of the four flags.
FlagCombinations == [popular : BOOLEAN, spicy : BOOLEAN,
                     vegetarian : BOOLEAN, glutenFree : BOOLEAN]

flagItem(k, flags) ==
  Item(k, <<"D", "i", "s", "h">>, <<>>, flags.popular, flags.spicy,
       flags.vegetarian, flags.glutenFree, None, None)

FlagCatalogs ==
  {catalogOf([k \in 1..n |-> flagItem(k, fs[k])]) :
     n \in 0..MaxFlagItems, fs \in [1..MaxFlagItems -> FlagCombinations]}

FlagQueries == {STR_popular, STR_spicy, STR_vegetarian, STR_gluten}

InitFlags ==
  /\ menuCategories \in FlagCatalogs
  /\ categories = <<>>
  /\ categoriesLoading = FALSE
  /\ categoriesError = FALSE
  /\ isLoaded = TRUE
  /\ activeCategory = ""
  /\ searchResults = None
  /\ currentQuery = <<>>
  /\ query \in FlagQueries
  /\ isExpanded = TRUE
  /\ item = SpringRolls
  /\ CardInit
  /\ last = Ran("setQuery", None, "NONE", None)

NextFlags == PressEnter

SpecFlags == InitFlags /\ [][NextFlags]_vars

\* The quick-lunch query over generated catalogs: three categories and up to
\* MaxQuickItems items with unique identifiers, each in one category and
\* with a name of QuickNames.
QuickCategoryIds == <<"starters", "noodles", "soups">>
QuickNames ==
  { <<"P", "a", "d", " ", "T", "h", "a", "i">>,
    <<"E", "g", "g", " ", "F", "r", "i", "e", "d", " ", "R", "i", "c", "e">> }

quickItem(k, name) ==
  Item(k, name, <<>>, FALSE, FALSE, FALSE, FALSE, None, None)

\* placed[k] = <<category, name>> of item k.
quickCatalog(n, placed) ==
  [c \in 1..Len(QuickCategoryIds) |->
     LET members == SelectSeq([k \in 1..n |-> k], LAMBDA k : placed[k][1] = c)
     IN [id |-> QuickCategoryIds[c],
         items |-> [m \in 1..Len(members) |-> quickItem(members[m], placed[members[m]][2])]]]

QuickCatalogs ==
  {quickCatalog(n, placed) :
     n \in 0..MaxQuickItems,
     placed \in [1..MaxQuickItems -> (1..Len(QuickCategoryIds)) \X QuickNames]}

QuickQueries == {STR_quick, STR_fast, STR_lunch}

InitQuick ==
  /\ menuCategories \in QuickCatalogs
  /\ categories = <<>>
  /\ categoriesLoading = FALSE
  /\ categoriesError = FALSE
  /\ isLoaded = TRUE
  /\ activeCategory = ""
  /\ searchResults = None
  /\ currentQuery = <<>>
  /\ query \in QuickQueries
  /\ isExpanded = TRUE
  /\ item = SpringRolls
  /\ CardInit
  /\ last = Ran("setQuery", None, "NONE", None)

NextQuick == PressEnter

SpecQuick == InitQuick /\ [][NextQuick]_vars

\* ------------------------------------------------------------------ claims
\* The classifier's rules as section 4.1 of the specification lists them:
\* rule k has the trigger substrings RuleTriggers[k] and selects RuleIntent[k].
RuleTriggers ==
  << {STR_popular, STR_best_seller},
     {STR_spicy, STR_spiciest},
     {STR_vegetarian, STR_vegan},
     {STR_gluten},
     {STR_protein, STR_highest_protein},
     {STR_quick, STR_fast, STR_lunch},
     {STR_spanish} >>
RuleIntent ==
  << "POPULAR", "SPICY", "VEGETARIAN", "GLUTEN_FREE", "HIGHEST_PROTEIN",
     "QUICK_LUNCH", "LANGUAGE_SWITCH" >>
RuleFires(k, lower) == \E t \in RuleTriggers[k] : includes(lower, t)
FirstRule(lower) ==
  IF \E k \in 1..7 : RuleFires(k, lower)
  THEN RuleIntent[CHOOSE k \in 1..7 :
                    RuleFires(k, lower) /\ \A m \in 1..(k - 1) : ~RuleFires(m, lower)]
  ELSE "GENERIC_TEXT_SEARCH"
IsBlank(s) == \A i \in 1..Len(s) : s[i] \in WhiteSpace
\* The step just taken submitted a non-blank query.
SubmittedNonBlank == last.op = "handleSearch" /\ ~IsBlank(last.text[1])
SubmittedLower == toLowerCase(last.text[1])

\* C1: a non-blank query selects the intent of the first rule, in the fixed
\* order, whose trigger occurs in the lower-cased query; a query containing
\* "spicy" is SPICY if and only if it contains neither "popular" nor
\* "best seller".
C1_FirstMatchingRuleWins ==
  SubmittedNonBlank =>
    /\ last.intent = FirstRule(SubmittedLower)
    /\ includes(SubmittedLower, STR_spicy) =>
         (last.intent = "SPICY" <=>
            /\ ~includes(SubmittedLower, STR_popular)
            /\ ~includes(SubmittedLower, STR_best_seller))

\* A query with "spicy" and a lower-priority trigger before it was classified SPICY.
C1_Witness ==
  /\ SubmittedNonBlank
  /\ last.intent = "SPICY"
  /\ SubmittedLower = STR_vegan \o <<" ">> \o STR_spicy

\* C2 as stated: LANGUAGE_SWITCH is selected only for the query that is
\* exactly "spanish"; a query that contains "spanish" with other characters
\* and no higher-priority trigger is a GENERIC_TEXT_SEARCH with a result.
C2_OnlyExactSpanish ==
  SubmittedNonBlank =>
    /\ last.intent = "LANGUAGE_SWITCH" => SubmittedLower = STR_spanish
    /\ ( /\ includes(SubmittedLower, STR_spanish)
         /\ SubmittedLower # STR_spanish
         /\ \A k \in 1..6 : ~RuleFires(k, SubmittedLower) )
       => (last.intent = "GENERIC_TEXT_SEARCH" /\ last.emitted # None)

\* C2 amended: LANGUAGE_SWITCH is selected exactly when the lower-cased query
\* contains "spanish" and no higher-priority trigger, with or without other
\* characters, and such a query produces no substring-search result.
C2_AnyQueryContainingSpanish ==
  SubmittedNonBlank =>
    /\ last.intent = "LANGUAGE_SWITCH" <=>
         ( /\ includes(SubmittedLower, STR_spanish)
           /\ \A k \in 1..6 : ~RuleFires(k, SubmittedLower) )
    /\ last.intent = "LANGUAGE_SWITCH" => last.emitted = None

\* A query with "spanish" and other characters was classified LANGUAGE_SWITCH.
C2_Witness ==
  /\ SubmittedNonBlank
  /\ last.intent = "LANGUAGE_SWITCH"
  /\ SubmittedLower = STR_spanish \o <<" ", "m", "e", "n", "u">>

\* C3: a query classified LANGUAGE_SWITCH emits a result to the parent, with
\* an empty item list and the translation table as a message.
C3_LanguageSwitchEmits ==
  (last.op = "handleSearch" /\ last.intent = "LANGUAGE_SWITCH") =>
    /\ last.emitted # None
    /\ last.emitted[1].items = <<>>
    /\ "message" \in DOMAIN last.emitted[1]

\* The item cards of the search view: searchItems, the items the hook
\* useMenuSearch returns for currentQuery.
searchItems == useMenuSearch(menuCategories, currentQuery)
noItemsFoundShown == searchResults # None /\ Len(searchItems) = 0

\* C4: while a search result is shown, the item cards are exactly the items
\* of the result the result builder produced, and "No items found" is shown
\* exactly when that list is empty.
C4_CardsAreTheResultItems ==
  searchResults # None =>
    /\ searchItems = searchResults[1].items
    /\ noItemsFoundShown <=> (searchResults[1].items = <<>>)

\* C5: a clear, by the X button or by "Back to Menu", keeps the active
\* category and leaves searchResults null, currentQuery empty and the search
\* bar's input text empty.
C5_ClearLeavesNoResidue ==
  [][last'.op \in {"clearSearch", "clearSearchResults"} =>
       /\ activeCategory' = activeCategory
       /\ searchResults' = None
       /\ currentQuery' = <<>>
       /\ query' = <<>>]_vars

\* C6: submitting an empty or whitespace-only query classifies nothing, calls
\* onSearchResults with nothing and changes none of searchResults,
\* currentQuery, activeCategory, query and isExpanded.
C6_BlankSubmitIsNoOp ==
  [][(last'.op = "handleSearch" /\ IsBlank(last'.text[1])) =>
       /\ last'.intent = "NONE"
       /\ last'.emitted = None
       /\ UNCHANGED <<searchResults, currentQuery, activeCategory, query,
                      isExpanded>>]_vars

\* A whitespace-only query was submitted from the search bar.
C6_Witness ==
  /\ last.op = "handleSearch"
  /\ last.text = Some(<<" ", " ">>)
  /\ query = <<" ", " ">>

\* C7: the local quantity of a card is at least 1 in every reachable state,
\* and so is every quantity forwarded to the cart.
C7_QuantityAtLeastOne ==
  /\ quantity >= 1
  /\ \A k \in 1..Len(cart) : cart[k].quantity >= 1

\* The item declares at least one required option.
DeclaresRequiredOption(it) ==
  /\ it.options # None
  /\ {k \in 1..Len(it.options[1]) : it.options[1][k].required} # {}

\* C8: for an item with a required option no step calls the cart
\* collaborator, and a click on add-to-cart only navigates to /item/<id>.
C8_RequiredOptionNeverReachesCart ==
  [][DeclaresRequiredOption(item) =>
       /\ cart' = cart
       /\ last'.op = "handleAddToCart" =>
            /\ href' = Some(<<"/item/", item.id>>)
            /\ UNCHANGED <<quantity, expanded, pending>>]_vars

\* Add-to-cart was clicked on a card whose item has a required option.
C8_Witness ==
  /\ DeclaresRequiredOption(item)
  /\ last.op = "handleAddToCart"
  /\ href = Some(<<"/item/", item.id>>)
  /\ cart = <<>>

\* C9: for an item with no required option a click on add-to-cart makes one
\* call to the cart collaborator, with the item's id, name and price and the
\* quantity the card shows, and the card's quantity is 1 afterwards: the
\* queued updates yield 1, and so does the render that follows the click.
C9_AddForwardsQuantityAndResets ==
  [][/\ (last'.op = "handleAddToCart" /\ ~DeclaresRequiredOption(item)) =>
          /\ cart' = cart \o <<[id |-> item.id, name |-> item.name,
                                price |-> item.price, quantity |-> quantity]>>
          /\ nextState'.quantity = 1
          /\ href' = href
     /\ ( /\ last.op = "handleAddToCart"
          /\ ~DeclaresRequiredOption(item)
          /\ last'.op = "render" ) => quantity' = 1]_vars

\* Quantity 3 of an item without a required option was added in one call.
C9_Witness ==
  /\ ~DeclaresRequiredOption(item)
  /\ last.op = "handleAddToCart"
  /\ Len(cart) = 1
  /\ cart[1].quantity = 3
  /\ nextState.quantity = 1

\* C10: the HIGHEST_PROTEIN result has at most 5 items, only items with a
\* defined protein value, and protein values that do not increase along it.
C10_ProteinResultBounded ==
  (last.op = "handleSearch" /\ last.intent = "HIGHEST_PROTEIN") =>
    LET items == last.emitted[1].items
    IN /\ Len(items) <= 5
       /\ \A i \in 1..Len(items) : items[i].protein # None
       /\ \A i \in 1..Len(items) : \A j \in (i + 1)..Len(items) :
            items[i].protein[1] >= items[j].protein[1]

\* A catalog with more than 5 protein items, not in descending order, was queried.
C10_Witness ==
  /\ last.op = "handleSearch"
  /\ last.intent = "HIGHEST_PROTEIN"
  /\ Len(SelectSeq(flatMapItems(menuCategories), LAMBDA it : it.protein # None)) > 5
  /\ Len(flatMapItems(menuCategories)) > 5
  /\ flatMapItems(menuCategories)[1].protein = Some(0)
  /\ Len(last.emitted[1].items) = 5
  /\ last.emitted[1].items[1].protein = Some(MaxProtein)

\* Two characters are the same letter, whatever their case.
SameLetter(a, b) ==
  a = b \/ \E k \in 1..26 : {a, b} = {UpperCaseLetters[k], LowerCaseLetters[k]}
\* q occurs in text as a substring, compared without regard to letter case.
ContainsIgnoringCase(text, q) ==
  \E i \in 0..(Len(text) - Len(q)) : \A j \in 1..Len(q) : SameLetter(text[i + j], q[j])
\* The step just taken submitted a query that was classified as a text search.
SubmittedTextSearch ==
  last.op = "handleSearch" /\ last.intent = "GENERIC_TEXT_SEARCH"

\* C11: the result of a GENERIC_TEXT_SEARCH holds exactly the items whose name
\* or description contains the submitted query, compared case-insensitively,
\* in catalog order.
C11_TextSearchMatchesIgnoringCase ==
  SubmittedTextSearch =>
    last.emitted[1].items =
      SelectSeq(flatMapItems(menuCategories),
        LAMBDA it : \/ ContainsIgnoringCase(it.name, last.text[1])
                    \/ ContainsIgnoringCase(it.description, last.text[1]))

\* "PAD" was searched in a catalog with "Pad Thai" and an item without "pad".
C11_Witness ==
  /\ SubmittedTextSearch
  /\ last.text = Some(<<"P", "A", "D">>)
  /\ Len(flatMapItems(menuCategories)) = 2
  /\ Len(last.emitted[1].items) = 1
  /\ last.emitted[1].items[1].name = <<"P", "a", "d", " ", "T", "h", "a", "i">>
  /\ last.emitted[1].items[1].id = 2

\* C12: the title of the result of a GENERIC_TEXT_SEARCH is
\* `Search Results for "<q>"` with <q> the query exactly as it was submitted.
C12_TitleCarriesOriginalQuery ==
  SubmittedTextSearch =>
    last.emitted[1].title = TITLE_search_prefix \o last.text[1] \o <<DoubleQuote>>

\* The places of the catalog, <<category, item>>, and the catalog order on
\* them: category order, then item order within the category.
CatalogPlaces ==
  UNION {{<<k, j>> : j \in 1..Len(menuCategories[k].items)} :
           k \in 1..Len(menuCategories)}
ItemAt(p) == menuCategories[p[1]].items[p[2]]
PlaceBefore(p, q) == p[1] < q[1] \/ (p[1] = q[1] /\ p[2] < q[2])
\* The items of the catalog have unique identifiers, so an item of the
\* catalog has one place.
InCatalog(items) ==
  \A i \in 1..Len(items) : \E p \in CatalogPlaces : ItemAt(p) = items[i]
PlacesOf(items) ==
  [i \in 1..Len(items) |-> CHOOSE p \in CatalogPlaces : ItemAt(p) = items[i]]
\* items holds exactly the items at the catalog's places that satisfy KeepAt,
\* each once, in catalog order: the places of its elements ascend and miss
\* no kept place.
ExactlyInCatalogOrder(items, KeepAt(_)) ==
  /\ InCatalog(items)
  /\ LET places == PlacesOf(items)
     IN /\ \A i \in 1..Len(items) : KeepAt(places[i])
        /\ \A i \in 1..Len(items) : \A j \in (i + 1)..Len(items) :
             PlaceBefore(places[i], places[j])
        /\ \A p \in CatalogPlaces :
             KeepAt(p) => \E i \in 1..Len(items) : places[i] = p

\* C13: each flag intent returns exactly the items whose flag is set, in
\* catalog order, under its fixed title.
C13_FlagResultsExact ==
  last.op = "handleSearch" =>
    /\ last.intent = "POPULAR" =>
         /\ last.emitted[1].title = TITLE_popular
         /\ ExactlyInCatalogOrder(last.emitted[1].items, LAMBDA p : ItemAt(p).popular)
    /\ last.intent = "SPICY" =>
         /\ last.emitted[1].title = TITLE_spicy
         /\ ExactlyInCatalogOrder(last.emitted[1].items, LAMBDA p : ItemAt(p).spicy)
    /\ last.intent = "VEGETARIAN" =>
         /\ last.emitted[1].title = TITLE_vegetarian
         /\ ExactlyInCatalogOrder(last.emitted[1].items, LAMBDA p : ItemAt(p).vegetarian)
    /\ last.intent = "GLUTEN_FREE" =>
         /\ last.emitted[1].title = TITLE_gluten_free
         /\ ExactlyInCatalogOrder(last.emitted[1].items, LAMBDA p : ItemAt(p).glutenFree)

\* The vegetarian items of both categories were returned and another item left out.
C13_Witness ==
  /\ last.op = "handleSearch"
  /\ last.intent = "VEGETARIAN"
  /\ Len(flatMapItems(menuCategories)) = 3
  /\ ~menuCategories[1].items[1].vegetarian
  /\ menuCategories[1].items[1].glutenFree
  /\ Len(last.emitted[1].items) = 2
  /\ last.emitted[1].items[1] = menuCategories[1].items[2]
  /\ last.emitted[1].items[2] = menuCategories[2].items[1]

\* C14: an item is in the QUICK_LUNCH result if and only if its category is
\* "starters" or "soups" or its name contains "fried rice" in any letter
\* case; each such item appears once, in catalog order, under the title
\* "Quick Lunch Options".
C14_QuickLunchExact ==
  (last.op = "handleSearch" /\ last.intent = "QUICK_LUNCH") =>
    /\ last.emitted[1].title = TITLE_quick
    /\ ExactlyInCatalogOrder(last.emitted[1].items,
         LAMBDA p : \/ menuCategories[p[1]].id = "starters"
                    \/ menuCategories[p[1]].id = "soups"
                    \/ ContainsIgnoringCase(ItemAt(p).name, STR_fried_rice))

\* A fried-rice dish of the noodles and a dish of the soups were returned
\* and another dish of the noodles left out.
C14_Witness ==
  /\ last.op = "handleSearch"
  /\ last.intent = "QUICK_LUNCH"
  /\ Len(menuCategories[1].items) = 0
  /\ Len(menuCategories[2].items) = 2
  /\ Len(menuCategories[3].items) = 1
  /\ Len(last.emitted[1].items) = 2
  /\ last.emitted[1].items[1] = menuCategories[2].items[2]
  /\ last.emitted[1].items[2] = menuCategories[3].items[1]
  /\ ~ContainsIgnoringCase(menuCategories[3].items[1].name, STR_fried_rice)

\* C15: when the categories load with at least one category and none is
\* selected, the active category becomes the slug of the first one; while
\* the catalog is empty the active category stays unset and neither a
\* category header nor an item list is rendered.
C15_InitialCategoryIsFirst ==
  /\ [][(categoriesLoading /\ ~categoriesLoading' /\ ~categoriesError'
           /\ Len(categories') > 0 /\ activeCategory = "")
          => activeCategory' = categories'[1].slug]_vars
  /\ []((~categoriesLoading /\ ~categoriesError /\ Len(categories) > 0)
          => activeCategory # "")
  /\ [](Len(categories) = 0 => (activeCategory = "" /\ ~categoryViewShown))

\* The categories have just loaded and the first one is shown.
C15_Witness ==
  /\ last.op = "useMenuCategories"
  /\ categories = LoadedCategories
  /\ activeCategory = "starters"
  /\ categoryViewShown

\* The places of the catalog whose item has a defined protein value.
ProteinPlaces == {p \in CatalogPlaces : ItemAt(p).protein # None}
ProteinAt(p) == ItemAt(p).protein[1]
\* p comes before q in the stable descending-by-protein ordering.
RanksBefore(p, q) ==
  \/ ProteinAt(p) > ProteinAt(q)
  \/ (ProteinAt(p) = ProteinAt(q) /\ PlaceBefore(p, q))

\* C16: the HIGHEST_PROTEIN result is exactly the first 5 items of the stable
\* descending-by-protein ordering of the items with a defined protein value:
\* its elements are in that order, no item left out ranks before an included
\* one, and none is left out while fewer than 5 are included.
C16_ProteinResultIsStableTopFive ==
  (last.op = "handleSearch" /\ last.intent = "HIGHEST_PROTEIN") =>
    LET items == last.emitted[1].items
    IN /\ InCatalog(items)
       /\ LET places == PlacesOf(items)
          IN /\ \A i \in 1..Len(items) : places[i] \in ProteinPlaces
             /\ \A i \in 1..Len(items) : \A j \in (i + 1)..Len(items) :
                  RanksBefore(places[i], places[j])
             /\ \A p \in ProteinPlaces :
                  (\A i \in 1..Len(items) : places[i] # p) =>
                    /\ Len(items) = 5
                    /\ \A i \in 1..Len(items) : RanksBefore(places[i], p)

\* Six items with a protein value, the last three equal: the query kept the
\* first two of the equal ones, in catalog order, and left the third out.
C16_Witness ==
  /\ last.op = "handleSearch"
  /\ last.intent = "HIGHEST_PROTEIN"
  /\ Cardinality(ProteinPlaces) = 6
  /\ \A p \in {<<2, 1>>, <<2, 2>>, <<2, 3>>} :
       p \in ProteinPlaces /\ ProteinAt(p) = 1
  /\ \A p \in {<<1, 1>>, <<1, 2>>, <<1, 3>>} :
       p \in ProteinPlaces /\ ProteinAt(p) = 2
  /\ Len(last.emitted[1].items) = 5
  /\ last.emitted[1].items[4] = ItemAt(<<2, 1>>)
  /\ last.emitted[1].items[5] = ItemAt(<<2, 2>>)

\* C17: in every reachable state of the Menu page searchResults is null if and
\* only if currentQuery is the empty string.
C17_ResultsNullIffQueryEmpty ==
  (searchResults = None) <=> (currentQuery = <<>>)

\* After a category selection a search result is shown, with its query.
C17_Witness ==
  /\ last.op = "handleSearch"
  /\ searchResults # None
  /\ currentQuery = <<"p", "a", "d">>
  /\ activeCategory = "noodles"

\* C18: for a query classified GENERIC_TEXT_SEARCH the currentQuery that
\* handleSearchResults takes from the result title equals the lower-cased
\* text that textSearch searched for, also when the query holds a double quote.
C18_TitleRoundTrip ==
  SubmittedTextSearch => currentQuery = toLowerCase(last.text[1])

====
